---- MODULE Spec2Model ----
(***************************************************************************)
(* A model of src/src/splitCustom.c: the custom split statistics of a      *)
(* random-forest node split (regression, classification, log-rank          *)
(* survival, log-rank competing risk, canonical-correlation difference)    *)
(* and the buffer utilities they use.                                      *)
(*                                                                         *)
(* Numbers.  A C double is modelled by an extended rational <<p, q>> in    *)
(* lowest terms: q > 0 is the finite value p/q, <<1,0>> and <<-1,0>> are   *)
(* +Inf and -Inf, <<0,0>> is NaN.  The four operations follow IEEE-754 on  *)
(* the special values and are exact on the finite ones (rounding is not    *)
(* modelled).  A value that the code obtains through sqrt() is kept as its *)
(* square: every such value is non-negative, so the square determines it. *)
(*                                                                         *)
(* Memory.  The heap is a sequence of buffers; a pointer is an index into  *)
(* it (0 is NULL).  malloc never hands an index out twice, so a stale      *)
(* pointer is always recognised.  A buffer is [size, live, rows]: its      *)
(* number of elements, whether it is still allocated and, for the vector   *)
(* of row pointers of a matrix, the pointers it holds.  The counts that    *)
(* the statistics keep in their buffers are the tables of the machine      *)
(* state, under the names of the pointers the code reaches them by.        *)
(***************************************************************************)
EXTENDS Integers, Sequences, FiniteSets, TLC

(***************************************************************************)
(* Bounds of the model.                                                    *)
(***************************************************************************)
MaxN == 4
MaxNCompetingRisk == 2
MaxTime == 2
MaxEventType == 2
MaxNResponse == 3
MaxResponse == 2
MaxVariance == 2
MaxLevel == 2
MaxNCca == 6
MaxFeatureCount == 3
MaxWork == 2
MaxNh == 2
MaxBuffers == 4
MaxNSweep == 3

LEFT == "LEFT"
RIGHT == "RIGHT"
NULL == 0

VARIABLES fn, pc, args, loc, tab, heap, fault, calls, ret

vars == <<fn, pc, args, loc, tab, heap, fault, calls, ret>>

\* The caller invokes the statistic `name` with the arguments a.
Call(name, a) ==
  /\ fn' = name
  /\ pc' = "entry"
  /\ args' = a
  /\ UNCHANGED <<loc, tab, heap, fault, calls, ret>>

\* The statistic `name` runs from entry to return; r is its machine state at return.
Return(r) ==
  /\ pc' = "done"
  /\ heap' = r.heap
  /\ loc' = r.loc
  /\ tab' = r.tab
  /\ fault' = r.fault
  /\ ret' = r.ret
  /\ UNCHANGED <<fn, args, calls>>

(***************************************************************************)
(* double arithmetic                                                       *)
(***************************************************************************)
Abs(x) == IF x < 0 THEN -x ELSE x

Sgn(x) == IF x < 0 THEN -1 ELSE IF x > 0 THEN 1 ELSE 0

RECURSIVE GCD(_, _)
GCD(a, b) == IF b = 0 THEN a ELSE GCD(b, a % b)

Norm(p, q) ==
  IF q = 0 THEN <<Sgn(p), 0>>
  ELSE LET g == GCD(Abs(p), Abs(q))
       IN  <<Sgn(q) * (p \div g), Abs(q) \div g>>

D(i) == <<i, 1>>

NaN == <<0, 0>>

IsNaN(x) == x = NaN

IsFin(x) == x[2] > 0

DNeg(x) == <<-x[1], x[2]>>

DAbs(x) == <<Abs(x[1]), x[2]>>

DAdd(x, y) ==
  IF IsNaN(x) \/ IsNaN(y) THEN NaN
  ELSE IF ~IsFin(x) /\ ~IsFin(y) THEN (IF x = y THEN x ELSE NaN)
  ELSE IF ~IsFin(x) THEN x
  ELSE IF ~IsFin(y) THEN y
  ELSE Norm(x[1] * y[2] + y[1] * x[2], x[2] * y[2])

DSub(x, y) == DAdd(x, DNeg(y))

DMul(x, y) ==
  IF IsNaN(x) \/ IsNaN(y) THEN NaN
  ELSE IF ~IsFin(x) \/ ~IsFin(y) THEN <<Sgn(x[1]) * Sgn(y[1]), 0>>
  ELSE Norm(x[1] * y[1], x[2] * y[2])

DDiv(x, y) ==
  IF IsNaN(x) \/ IsNaN(y) THEN NaN
  ELSE IF ~IsFin(y) THEN (IF IsFin(x) THEN D(0) ELSE NaN)
  ELSE IF ~IsFin(x) THEN <<x[1] * (IF y[1] < 0 THEN -1 ELSE 1), 0>>
  ELSE Norm(x[1] * y[2], x[2] * y[1])

DLeq(x, y) ==
  IF IsNaN(x) \/ IsNaN(y) THEN FALSE
  ELSE IF ~IsFin(x) THEN x[1] < 0 \/ x = y
  ELSE IF ~IsFin(y) THEN y[1] > 0
  ELSE x[1] * y[2] <= y[1] * x[2]

(***************************************************************************)
(* the heap                                                                *)
(***************************************************************************)
Buffer(size) == [size |-> size, live |-> TRUE, rows |-> <<>>]

Malloc(h, size) == Append(h, Buffer(size))

Live(h, p) == p \in 1..Len(h) /\ h[p].live

\* A freed buffer keeps its place in the heap and nothing else.
Free(h, p) == IF p \in 1..Len(h) THEN [h EXCEPT ![p] = [size |-> 0, live |-> FALSE, rows |-> <<>>]] ELSE h

FreeFault(h, p) == IF p = NULL \/ Live(h, p) THEN {} ELSE {"double free"}

UseFault(h, ps) == IF \A p \in ps : Live(h, p) THEN {} ELSE {"use after free"}

OobFault(h, ps, m) == IF \A p \in ps : p \in 1..Len(h) /\ m < h[p].size THEN {} ELSE {"out of bounds"}

\* A machine state inside a call: the heap, the locals, the memory faults so far.
MFree(s, p) == [s EXCEPT !.heap = Free(s.heap, p), !.fault = @ \cup FreeFault(s.heap, p)]

MUse(s, ps) == [s EXCEPT !.fault = @ \cup UseFault(s.heap, ps)]

\* as alloc_uivector, without the element for index nh
TightUivector(h, nh) == Malloc(h, nh)

alloc_uivector(h, nh) == Malloc(h, nh + 1)

dealloc_uivector(h, v) == Free(h, v)

(***************************************************************************)
(* the inputs a caller can supply                                          *)
(***************************************************************************)
Memberships(n) == [1..n -> {LEFT, RIGHT}]

Times(n) == {s \in [1..n -> 1..MaxTime] : \A i \in 1..(n - 1) : s[i] <= s[i + 1]}

Events(n, types) == [1..n -> 0..types]

EventTimes == UNION {{s \in [1..m -> 1..MaxTime] : \A i \in 1..(m - 1) : s[i] < s[i + 1]} : m \in 0..MaxTime}

NoArgs ==
  [n |-> 0, membership |-> <<>>, time |-> <<>>, event |-> <<>>, eventTypeSize |-> 0,
   eventTimeSize |-> 0, eventTime |-> <<>>, response |-> <<>>, mean |-> D(0),
   variance |-> D(0), maxLevel |-> 0, feature |-> <<>>, featureCount |-> 0]

SurvivalArgs(n, membership, time, event, eventTypeSize, eventTime) ==
  [NoArgs EXCEPT !.n = n, !.membership = membership, !.time = time, !.event = event,
                 !.eventTypeSize = eventTypeSize, !.eventTimeSize = Len(eventTime),
                 !.eventTime = eventTime]

(***************************************************************************)
(* getCustomSplitStatisticMultivariateRegression                           *)
(***************************************************************************)
RegressionArgs(n, membership, response, mean, variance) ==
  [NoArgs EXCEPT !.n = n, !.membership = membership, !.response = response,
                 !.mean = mean, !.variance = variance]

\* as RegressionLoop, summing the responses without centring them
RECURSIVE UncentredLoop(_, _, _)
UncentredLoop(a, i, l) ==
  IF i <= a.n
  THEN IF a.membership[i] = LEFT
       THEN UncentredLoop(a, i + 1, [l EXCEPT !.sumLeft = DAdd(@, a.response[i]), !.leftSize = @ + 1])
       ELSE UncentredLoop(a, i + 1, [l EXCEPT !.sumRght = DAdd(@, a.response[i]), !.rghtSize = @ + 1])
  ELSE l

\* The loop over the members i = from, ..., n (lines 151-163).
RECURSIVE RegressionLoop(_, _, _)
RegressionLoop(a, i, l) ==
  IF i <= a.n
  THEN IF a.membership[i] = LEFT
       THEN RegressionLoop(a, i + 1, [l EXCEPT !.sumLeft = DAdd(@, DSub(a.response[i], a.mean)),
                                               !.leftSize = @ + 1])
       ELSE RegressionLoop(a, i + 1, [l EXCEPT !.sumRght = DAdd(@, DSub(a.response[i], a.mean)),
                                               !.rghtSize = @ + 1])
  ELSE l

\* pow(x, 2.0) / ((double) size * variance)
MeanSquare(sum, size, variance) == DDiv(DMul(sum, sum), DMul(D(size), variance))

\* as getCustomSplitStatisticMultivariateRegression, with the right daughter's
\* term divided by leftSize
LeftSizedRegression(h, f, a) ==
  LET l == RegressionLoop(a, 1, [sumLeft |-> D(0), sumRght |-> D(0), leftSize |-> 0, rghtSize |-> 0])
      sumLeftSqr == MeanSquare(l.sumLeft, l.leftSize, a.variance)
      sumRghtSqr == MeanSquare(l.sumRght, l.leftSize, a.variance)
  IN  [heap |-> h, loc |-> l, tab |-> <<>>, fault |-> f, ret |-> DAdd(sumLeftSqr, sumRghtSqr)]

getCustomSplitStatisticMultivariateRegression(h, f, a) ==
  LET l == RegressionLoop(a, 1, [sumLeft |-> D(0), sumRght |-> D(0), leftSize |-> 0, rghtSize |-> 0])
      sumLeftSqr == MeanSquare(l.sumLeft, l.leftSize, a.variance)
      sumRghtSqr == MeanSquare(l.sumRght, l.rghtSize, a.variance)
  IN  [heap |-> h, loc |-> l, tab |-> <<>>, fault |-> f, ret |-> DAdd(sumLeftSqr, sumRghtSqr)]

(***************************************************************************)
(* getCustomSplitStatisticMultivariateClassification                       *)
(***************************************************************************)
ClassificationArgs(n, membership, response, maxLevel) ==
  [NoArgs EXCEPT !.n = n, !.membership = membership, !.response = response, !.maxLevel = maxLevel]

\* (unsigned int) of a class label held in a double
Label(x) == x[1] \div x[2]

\* The loop over the members i = from, ..., n (lines 229-246).
RECURSIVE ClassificationLoop(_, _, _)
ClassificationLoop(a, i, s) ==
  IF i <= a.n
  THEN LET c == Label(a.response[i])
           oob == IF c \in 0..a.maxLevel THEN {} ELSE {"out of bounds"}
       IN  IF a.membership[i] = LEFT
           THEN ClassificationLoop(a, i + 1,
                  [s EXCEPT !.tab.leftClassProp = IF oob = {} THEN [@ EXCEPT ![c] = @ + 1] ELSE @,
                            !.loc.leftSize = @ + 1, !.fault = @ \cup oob])
           ELSE ClassificationLoop(a, i + 1,
                  [s EXCEPT !.tab.rghtClassProp = IF oob = {} THEN [@ EXCEPT ![c] = @ + 1] ELSE @,
                            !.loc.rghtSize = @ + 1, !.fault = @ \cup oob])
  ELSE s

\* as SumOfSquares, summing the counts themselves
RECURSIVE SumOfCounts(_, _, _)
SumOfCounts(prop, p, maxLevel) ==
  IF p <= maxLevel THEN DAdd(D(prop[p]), SumOfCounts(prop, p + 1, maxLevel)) ELSE D(0)

\* The sum of squares over the classes p = from, ..., maxLevel (lines 248-251).
RECURSIVE SumOfSquares(_, _, _)
SumOfSquares(prop, p, maxLevel) ==
  IF p <= maxLevel THEN DAdd(DMul(D(prop[p]), D(prop[p])), SumOfSquares(prop, p + 1, maxLevel)) ELSE D(0)

ClassificationVectors(l) == {l.leftClassProp, l.rghtClassProp}

\* lines 207-222: allocate and reset the class counts (element 0 is never reset)
ClassificationAllocate(h, f, a) ==
  LET h2 == alloc_uivector(alloc_uivector(h, a.maxLevel), a.maxLevel)
      l  == [leftClassProp |-> Len(h) + 1, rghtClassProp |-> Len(h) + 2,
             sumLeft |-> D(0), sumRght |-> D(0), leftSize |-> 0, rghtSize |-> 0]
  IN  [heap |-> h2, loc |-> l,
       tab |-> [leftClassProp |-> [p \in 0..a.maxLevel |-> 0], rghtClassProp |-> [p \in 0..a.maxLevel |-> 0]],
       fault |-> f \cup OobFault(h2, ClassificationVectors(l), a.maxLevel)]

\* lines 224-246
ClassificationTally(a, s) == ClassificationLoop(a, 1, MUse(s, ClassificationVectors(s.loc)))

\* lines 248-251
ClassificationSums(a, s) ==
  [MUse(s, ClassificationVectors(s.loc)) EXCEPT
     !.loc.sumLeft = DAdd(@, SumOfSquares(s.tab.leftClassProp, 1, a.maxLevel)),
     !.loc.sumRght = DAdd(@, SumOfSquares(s.tab.rghtClassProp, 1, a.maxLevel))]

\* lines 253-257
ClassificationDealloc(s) == MFree(MFree(s, s.loc.leftClassProp), s.loc.rghtClassProp)

getCustomSplitStatisticMultivariateClassification(h, f, a) ==
  LET s == ClassificationDealloc(ClassificationSums(a, ClassificationTally(a, ClassificationAllocate(h, f, a))))
      sumLeftSqr == DDiv(s.loc.sumLeft, D(s.loc.leftSize))
      sumRghtSqr == DDiv(s.loc.sumRght, D(s.loc.rghtSize))
  IN  [heap |-> s.heap, loc |-> s.loc, tab |-> s.tab, fault |-> s.fault,
       ret |-> DAdd(sumLeftSqr, sumRghtSqr)]

(***************************************************************************)
(* getCustomSplitStatisticSurvival                                         *)
(***************************************************************************)
ZeroVec(m) == [k \in 1..m |-> 0]

ZeroTables(m) ==
  [nodeLeftEvent |-> ZeroVec(m), nodeParentEvent |-> ZeroVec(m),
   nodeLeftAtRisk |-> ZeroVec(m), nodeParentAtRisk |-> ZeroVec(m), iterations |-> 0]

\* as SurvivalSweepLoop, with a member at risk only strictly after the grid time
RECURSIVE StrictSweepLoop(_, _, _, _)
StrictSweepLoop(a, i, k, t) ==
  IF (i > 0) /\ (k > 0)
  THEN IF a.eventTime[k] < a.time[i]
       THEN LET left == a.membership[i] = LEFT
                died == a.eventTime[k] = a.time[i] /\ a.event[i] > 0
            IN  StrictSweepLoop(a, i - 1, k,
                  [t EXCEPT !.nodeParentAtRisk[k] = @ + 1,
                            !.nodeLeftAtRisk[k] = IF left THEN @ + 1 ELSE @,
                            !.nodeParentEvent[k] = IF died THEN @ + 1 ELSE @,
                            !.nodeLeftEvent[k] = IF died /\ left THEN @ + 1 ELSE @,
                            !.iterations = @ + 1])
       ELSE StrictSweepLoop(a, i, k - 1, [t EXCEPT !.iterations = @ + 1])
  ELSE t

\* The while loop of the sweep, from (i, k) with tables t.
RECURSIVE SurvivalSweepLoop(_, _, _, _)
SurvivalSweepLoop(a, i, k, t) ==
  IF (i > 0) /\ (k > 0)
  THEN IF a.eventTime[k] <= a.time[i]
       THEN LET left == a.membership[i] = LEFT
                died == a.eventTime[k] = a.time[i] /\ a.event[i] > 0
            IN  SurvivalSweepLoop(a, i - 1, k,
                  [t EXCEPT !.nodeParentAtRisk[k] = @ + 1,
                            !.nodeLeftAtRisk[k] = IF left THEN @ + 1 ELSE @,
                            !.nodeParentEvent[k] = IF died THEN @ + 1 ELSE @,
                            !.nodeLeftEvent[k] = IF died /\ left THEN @ + 1 ELSE @,
                            !.iterations = @ + 1])
       ELSE SurvivalSweepLoop(a, i, k - 1, [t EXCEPT !.iterations = @ + 1])
  ELSE t

\* as StepFunctionLoop, summing into element k instead of element k - 1
RECURSIVE ForwardStepFunctionLoop(_, _)
ForwardStepFunctionLoop(k, t) ==
  IF k > 1
  THEN ForwardStepFunctionLoop(k - 1,
         [t EXCEPT !.nodeParentAtRisk[k] = @ + t.nodeParentAtRisk[k - 1],
                   !.nodeLeftAtRisk[k] = @ + t.nodeLeftAtRisk[k - 1]])
  ELSE t

\* The step-function loop, for k = from, from - 1, ..., 2.
RECURSIVE StepFunctionLoop(_, _)
StepFunctionLoop(k, t) ==
  IF k > 1
  THEN StepFunctionLoop(k - 1,
         [t EXCEPT !.nodeParentAtRisk[k - 1] = t.nodeParentAtRisk[k] + @,
                   !.nodeLeftAtRisk[k - 1] = t.nodeLeftAtRisk[k] + @])
  ELSE t

\* as SurvivalNumTerm, with the expected events taken over the whole risk set
ParentExpectedNumTerm(t, k) ==
  DSub(D(t.nodeLeftEvent[k]),
       DDiv(D(t.nodeParentAtRisk[k] * t.nodeParentEvent[k]), D(t.nodeParentAtRisk[k])))

SurvivalNumTerm(t, k) ==
  DSub(D(t.nodeLeftEvent[k]),
       DDiv(D(t.nodeLeftAtRisk[k] * t.nodeParentEvent[k]), D(t.nodeParentAtRisk[k])))

\* as SurvivalDenTerm, with the operands of parentAtRisk - parentEvent exchanged
ExchangedDenTerm(t, k) ==
  IF t.nodeParentAtRisk[k] >= 2
  THEN DMul(DMul(DMul(DDiv(D(t.nodeLeftAtRisk[k]), D(t.nodeParentAtRisk[k])),
                      DSub(D(1), DDiv(D(t.nodeLeftAtRisk[k]), D(t.nodeParentAtRisk[k])))),
                 DDiv(D(t.nodeParentEvent[k] - t.nodeParentAtRisk[k]), D(t.nodeParentAtRisk[k] - 1))),
            D(t.nodeParentEvent[k]))
  ELSE D(0)

SurvivalDenTerm(t, k) ==
  IF t.nodeParentAtRisk[k] >= 2
  THEN DMul(DMul(DMul(DDiv(D(t.nodeLeftAtRisk[k]), D(t.nodeParentAtRisk[k])),
                      DSub(D(1), DDiv(D(t.nodeLeftAtRisk[k]), D(t.nodeParentAtRisk[k])))),
                 DDiv(D(t.nodeParentAtRisk[k] - t.nodeParentEvent[k]), D(t.nodeParentAtRisk[k] - 1))),
            D(t.nodeParentEvent[k]))
  ELSE D(0)

\* The accumulation loop, for k = from, ..., m, onto acc = [deltaNum, deltaDen].
RECURSIVE SurvivalAccumulateLoop(_, _, _, _)
SurvivalAccumulateLoop(t, k, m, acc) ==
  IF k <= m
  THEN SurvivalAccumulateLoop(t, k + 1, m,
         [deltaNum |-> DAdd(acc.deltaNum, SurvivalNumTerm(t, k)),
          deltaDen |-> DAdd(acc.deltaDen, SurvivalDenTerm(t, k))])
  ELSE acc

EpsInv == 1000000000

\* x <= 1.0e-9
LeqEps(x) == IF IsFin(x) THEN x[1] <= x[2] \div EpsInv ELSE ~IsNaN(x) /\ x[1] < 0

\* sqrt(x) <= 1.0e-9, for x the argument of sqrt
SqrtLeqEps(x) == IsFin(x) /\ x[1] >= 0 /\ x[1] <= (x[2] \div EpsInv) \div EpsInv

\* the square of num / sqrt(den)
QuotientSq(num, den) ==
  IF IsNaN(num) \/ IsNaN(den) \/ den[1] < 0 THEN NaN
  ELSE DDiv(DMul(num, num), den)

\* as LogRankDelta, without the guard against a zero denominator
UnguardedDelta(deltaNum, deltaDen) == QuotientSq(DAbs(deltaNum), deltaDen)

\* The tail of both log-rank statistics; returns the square of delta.
LogRankDelta(deltaNum, deltaDen) ==
  LET num == DAbs(deltaNum)
  IN  IF SqrtLeqEps(deltaDen)
      THEN IF LeqEps(num) THEN D(0) ELSE QuotientSq(num, deltaDen)
      ELSE QuotientSq(num, deltaDen)

SurvivalVectors(l) == {l.nodeLeftEvent, l.nodeParentEvent, l.nodeLeftAtRisk, l.nodeParentAtRisk}

\* lines 306-327: allocate the four vectors, reset them, set i and k
SurvivalAllocate(h, f, a) ==
  LET h4 == alloc_uivector(alloc_uivector(alloc_uivector(alloc_uivector(h, a.eventTimeSize),
                 a.eventTimeSize), a.eventTimeSize), a.eventTimeSize)
      l  == [nodeLeftEvent |-> Len(h) + 1, nodeParentEvent |-> Len(h) + 2,
             nodeLeftAtRisk |-> Len(h) + 3, nodeParentAtRisk |-> Len(h) + 4,
             deltaNum |-> D(0), deltaDen |-> D(0), i |-> a.n, k |-> a.eventTimeSize]
  IN  [heap |-> h4, loc |-> l, tab |-> ZeroTables(a.eventTimeSize),
       fault |-> f \cup OobFault(h4, SurvivalVectors(l), a.eventTimeSize)]

\* as SurvivalSweep, with the sweep started one observation before the last
ShortSweep(a, s) ==
  [MUse(s, SurvivalVectors(s.loc)) EXCEPT !.tab = SurvivalSweepLoop(a, s.loc.i - 1, s.loc.k, s.tab)]

\* lines 329-364
SurvivalSweep(a, s) ==
  [MUse(s, SurvivalVectors(s.loc)) EXCEPT !.tab = SurvivalSweepLoop(a, s.loc.i, s.loc.k, s.tab)]

\* lines 366-370
SurvivalStepFunction(a, s) ==
  [MUse(s, SurvivalVectors(s.loc)) EXCEPT !.tab = StepFunctionLoop(a.eventTimeSize, s.tab)]

\* lines 372-385
SurvivalAccumulate(a, s) ==
  LET acc == SurvivalAccumulateLoop(s.tab, 1, a.eventTimeSize,
                                    [deltaNum |-> s.loc.deltaNum, deltaDen |-> s.loc.deltaDen])
  IN  [MUse(s, SurvivalVectors(s.loc)) EXCEPT !.loc.deltaNum = acc.deltaNum,
                                              !.loc.deltaDen = acc.deltaDen]

\* lines 388-396
SurvivalDealloc(s) ==
  MFree(MFree(MFree(MFree(s, s.loc.nodeLeftEvent), s.loc.nodeParentEvent),
              s.loc.nodeLeftAtRisk), s.loc.nodeParentAtRisk)

\* The whole function, called with heap h and faults f: the machine state at
\* return, with the returned value (as its square) in ret.
getCustomSplitStatisticSurvival(h, f, a) ==
  LET s == SurvivalDealloc(SurvivalAccumulate(a, SurvivalStepFunction(a,
             SurvivalSweep(a, SurvivalAllocate(h, f, a)))))
  IN  [heap |-> s.heap, loc |-> s.loc, tab |-> s.tab, fault |-> s.fault,
       ret |-> LogRankDelta(s.loc.deltaNum, s.loc.deltaDen)]

(***************************************************************************)
(* getCustomSplitStatisticCompetingRisk                                    *)
(***************************************************************************)
\* rows i = from..n2h of alloc_uimatrix's loop, v the vector of row pointers
RECURSIVE AllocRows(_, _, _, _, _)
AllocRows(h, v, i, n2h, nh) ==
  IF i <= n2h
  THEN AllocRows([alloc_uivector(h, nh) EXCEPT ![v].rows = Append(@, Len(h) + 1)], v, i + 1, n2h, nh)
  ELSE h

alloc_uimatrix(h, n2h, nh) == AllocRows(Malloc(h, n2h + 1), Len(h) + 1, 1, n2h, nh)

Row(h, v, j) == IF v \in 1..Len(h) /\ j \in DOMAIN h[v].rows THEN h[v].rows[j] ELSE NULL

RECURSIVE DeallocRows(_, _, _, _)
DeallocRows(s, v, i, n2h) ==
  IF i <= n2h
  THEN DeallocRows(MFree(MUse(s, {v}), Row(s.heap, v, i)), v, i + 1, n2h)
  ELSE s

dealloc_uimatrix(s, v, n2h) == MFree(DeallocRows(s, v, 1, n2h), v)

ZeroMatrix(n2h, m) == [j \in 1..n2h |-> ZeroVec(m)]

ZeroTablesCR(n2h, m) ==
  [nodeLeftEvent |-> ZeroVec(m), nodeParentEvent |-> ZeroVec(m),
   nodeLeftAtRisk |-> ZeroVec(m), nodeParentAtRisk |-> ZeroVec(m),
   nodeLeftEventCR |-> ZeroMatrix(n2h, m), nodeParentEventCR |-> ZeroMatrix(n2h, m),
   nodeLeftInclusiveAtRisk |-> ZeroMatrix(n2h, m), nodeParentInclusiveAtRisk |-> ZeroMatrix(n2h, m),
   iterations |-> 0]

\* as CompetingRiskSweepLoop, with a death counted at the grid time it is swept
\* at, whether or not it happened at that time
RECURSIVE EarlyDeathSweepLoop(_, _, _, _)
EarlyDeathSweepLoop(a, i, k, t) ==
  IF (i > 0) /\ (k > 0)
  THEN IF a.eventTime[k] <= a.time[i]
       THEN LET left == a.membership[i] = LEFT
                died == a.event[i] > 0
                t1 == [t EXCEPT !.nodeParentAtRisk[k] = @ + 1,
                                !.nodeLeftAtRisk[k] = IF left THEN @ + 1 ELSE @,
                                !.nodeParentEvent[k] = IF died THEN @ + 1 ELSE @,
                                !.iterations = @ + 1]
                t2 == IF died THEN [t1 EXCEPT !.nodeParentEventCR[a.event[i]][k] = @ + 1] ELSE t1
                t3 == IF died /\ left THEN [t2 EXCEPT !.nodeLeftEventCR[a.event[i]][k] = @ + 1] ELSE t2
            IN  EarlyDeathSweepLoop(a, i - 1, k, t3)
       ELSE EarlyDeathSweepLoop(a, i, k - 1, [t EXCEPT !.iterations = @ + 1])
  ELSE t

\* The while loop of the sweep, from (i, k) with tables t.
RECURSIVE CompetingRiskSweepLoop(_, _, _, _)
CompetingRiskSweepLoop(a, i, k, t) ==
  IF (i > 0) /\ (k > 0)
  THEN IF a.eventTime[k] <= a.time[i]
       THEN LET left == a.membership[i] = LEFT
                died == a.eventTime[k] = a.time[i] /\ a.event[i] > 0
                t1 == [t EXCEPT !.nodeParentAtRisk[k] = @ + 1,
                                !.nodeLeftAtRisk[k] = IF left THEN @ + 1 ELSE @,
                                !.nodeParentEvent[k] = IF died THEN @ + 1 ELSE @,
                                !.iterations = @ + 1]
                t2 == IF died THEN [t1 EXCEPT !.nodeParentEventCR[a.event[i]][k] = @ + 1] ELSE t1
                t3 == IF died /\ left THEN [t2 EXCEPT !.nodeLeftEventCR[a.event[i]][k] = @ + 1] ELSE t2
            IN  CompetingRiskSweepLoop(a, i - 1, k, t3)
       ELSE CompetingRiskSweepLoop(a, i, k - 1, [t EXCEPT !.iterations = @ + 1])
  ELSE t

\* as OtherCauseEvents, with the events at time k itself included
RECURSIVE OtherCauseEventsThrough(_, _, _, _, _)
OtherCauseEventsThrough(cr, j, k, s, r) ==
  IF s > k THEN 0
  ELSE IF r > Len(cr) THEN OtherCauseEventsThrough(cr, j, k, s + 1, 1)
  ELSE (IF j # r THEN cr[r][s] ELSE 0) + OtherCauseEventsThrough(cr, j, k, s, r + 1)

\* sum of cr[r][s] over s = 1..k-1 and the causes r # j (lines 547-554)
RECURSIVE OtherCauseEvents(_, _, _, _, _)
OtherCauseEvents(cr, j, k, s, r) ==
  IF s >= k THEN 0
  ELSE IF r > Len(cr) THEN OtherCauseEvents(cr, j, k, s + 1, 1)
  ELSE (IF j # r THEN cr[r][s] ELSE 0) + OtherCauseEvents(cr, j, k, s, r + 1)

\* lines 542-556
InclusiveAtRisk(t, n2h, m) ==
  [t EXCEPT !.nodeParentInclusiveAtRisk =
              [j \in 1..n2h |-> [k \in 1..m |->
                 t.nodeParentAtRisk[k] + OtherCauseEvents(t.nodeParentEventCR, j, k, 1, 1)]],
            !.nodeLeftInclusiveAtRisk =
              [j \in 1..n2h |-> [k \in 1..m |->
                 t.nodeLeftAtRisk[k] + OtherCauseEvents(t.nodeLeftEventCR, j, k, 1, 1)]]]

\* as CompetingRiskNumTerm, with the left events read from the vector that the
\* competing-risk sweep never counts into
LeftEventVectorNumTerm(t, j, k) ==
  DSub(D(t.nodeLeftEvent[k]),
       DMul(D(t.nodeParentEventCR[j][k]),
            DDiv(D(t.nodeLeftInclusiveAtRisk[j][k]), D(t.nodeParentInclusiveAtRisk[j][k]))))

CompetingRiskNumTerm(t, j, k) ==
  DSub(D(t.nodeLeftEventCR[j][k]),
       DMul(D(t.nodeParentEventCR[j][k]),
            DDiv(D(t.nodeLeftInclusiveAtRisk[j][k]), D(t.nodeParentInclusiveAtRisk[j][k]))))

CompetingRiskDenTerm(t, j, k) ==
  IF t.nodeParentAtRisk[k] >= 2
  THEN DMul(DMul(DMul(D(t.nodeParentEventCR[j][k]),
                      DDiv(D(t.nodeLeftInclusiveAtRisk[j][k]), D(t.nodeParentInclusiveAtRisk[j][k]))),
                 DSub(D(1), DDiv(D(t.nodeLeftInclusiveAtRisk[j][k]), D(t.nodeParentInclusiveAtRisk[j][k])))),
            DDiv(D(t.nodeParentInclusiveAtRisk[j][k] - t.nodeParentEventCR[j][k]),
                 D(t.nodeParentInclusiveAtRisk[j][k] - 1)))
  ELSE D(0)

RECURSIVE DeltaSubNum(_, _, _, _)
DeltaSubNum(t, j, k, m) ==
  IF k > m THEN D(0) ELSE DAdd(DeltaSubNum(t, j, k + 1, m), CompetingRiskNumTerm(t, j, k))

RECURSIVE DeltaSubDen(_, _, _, _)
DeltaSubDen(t, j, k, m) ==
  IF k > m THEN D(0) ELSE DAdd(DeltaSubDen(t, j, k + 1, m), CompetingRiskDenTerm(t, j, k))

\* The loop over the event types j = from, ..., n2h (lines 558-580).
RECURSIVE CompetingRiskAccumulateLoop(_, _, _, _, _)
CompetingRiskAccumulateLoop(t, j, n2h, m, acc) ==
  IF j <= n2h
  THEN CompetingRiskAccumulateLoop(t, j + 1, n2h, m,
         [deltaNum |-> DAdd(acc.deltaNum, DeltaSubNum(t, j, 1, m)),
          deltaDen |-> DAdd(acc.deltaDen, DeltaSubDen(t, j, 1, m))])
  ELSE acc

CompetingRiskMatrices(l) ==
  {l.nodeParentEventCR, l.nodeLeftEventCR, l.nodeParentInclusiveAtRisk, l.nodeLeftInclusiveAtRisk}

CompetingRiskBuffers(h, l, n2h) ==
  SurvivalVectors(l) \cup CompetingRiskMatrices(l)
    \cup {Row(h, v, j) : v \in CompetingRiskMatrices(l), j \in 1..n2h}

\* lines 456-494: allocate the vectors and the matrices, reset them, set i and k
CompetingRiskAllocate(h, f, a) ==
  LET h4 == alloc_uivector(alloc_uivector(alloc_uivector(alloc_uivector(h, a.eventTimeSize),
                 a.eventTimeSize), a.eventTimeSize), a.eventTimeSize)
      h5 == alloc_uimatrix(h4, a.eventTypeSize, a.eventTimeSize)
      h6 == alloc_uimatrix(h5, a.eventTypeSize, a.eventTimeSize)
      h7 == alloc_uimatrix(h6, a.eventTypeSize, a.eventTimeSize)
      h8 == alloc_uimatrix(h7, a.eventTypeSize, a.eventTimeSize)
      l  == [nodeLeftEvent |-> Len(h) + 1, nodeParentEvent |-> Len(h) + 2,
             nodeLeftAtRisk |-> Len(h) + 3, nodeParentAtRisk |-> Len(h) + 4,
             nodeParentEventCR |-> Len(h4) + 1, nodeLeftEventCR |-> Len(h5) + 1,
             nodeParentInclusiveAtRisk |-> Len(h6) + 1, nodeLeftInclusiveAtRisk |-> Len(h7) + 1,
             deltaNum |-> D(0), deltaDen |-> D(0), i |-> a.n, k |-> a.eventTimeSize]
  IN  [heap |-> h8, loc |-> l, tab |-> ZeroTablesCR(a.eventTypeSize, a.eventTimeSize),
       fault |-> f \cup OobFault(h8, SurvivalVectors(l), a.eventTimeSize)
                   \cup OobFault(h8, CompetingRiskMatrices(l), a.eventTypeSize)
                   \cup OobFault(h8, CompetingRiskBuffers(h8, l, a.eventTypeSize)
                                       \ (SurvivalVectors(l) \cup CompetingRiskMatrices(l)), a.eventTimeSize)]

MUseCR(a, s) == MUse(s, CompetingRiskBuffers(s.heap, s.loc, a.eventTypeSize))

\* lines 496-534
CompetingRiskSweep(a, s) ==
  [MUseCR(a, s) EXCEPT !.tab = CompetingRiskSweepLoop(a, s.loc.i, s.loc.k, s.tab)]

\* lines 536-540
CompetingRiskStepFunction(a, s) ==
  [MUseCR(a, s) EXCEPT !.tab = StepFunctionLoop(a.eventTimeSize, s.tab)]

\* lines 542-556
CompetingRiskInclusive(a, s) ==
  [MUseCR(a, s) EXCEPT !.tab = InclusiveAtRisk(s.tab, a.eventTypeSize, a.eventTimeSize)]

\* lines 558-580
CompetingRiskAccumulate(a, s) ==
  LET acc == CompetingRiskAccumulateLoop(s.tab, 1, a.eventTypeSize, a.eventTimeSize,
               [deltaNum |-> s.loc.deltaNum, deltaDen |-> s.loc.deltaDen])
  IN  [MUseCR(a, s) EXCEPT !.loc.deltaNum = acc.deltaNum, !.loc.deltaDen = acc.deltaDen]

\* lines 584-602
CompetingRiskDealloc(a, s) ==
  LET s4 == MFree(MFree(MFree(MFree(s, s.loc.nodeLeftEvent), s.loc.nodeParentEvent),
                        s.loc.nodeLeftAtRisk), s.loc.nodeParentAtRisk)
  IN  dealloc_uimatrix(dealloc_uimatrix(dealloc_uimatrix(dealloc_uimatrix(s4,
        s.loc.nodeParentEventCR, a.eventTypeSize), s.loc.nodeLeftEventCR, a.eventTypeSize),
        s.loc.nodeParentInclusiveAtRisk, a.eventTypeSize), s.loc.nodeLeftInclusiveAtRisk, a.eventTypeSize)

getCustomSplitStatisticCompetingRisk(h, f, a) ==
  LET s == CompetingRiskDealloc(a, CompetingRiskAccumulate(a, CompetingRiskInclusive(a,
             CompetingRiskStepFunction(a, CompetingRiskSweep(a, CompetingRiskAllocate(h, f, a))))))
  IN  [heap |-> s.heap, loc |-> s.loc, tab |-> s.tab, fault |-> s.fault,
       ret |-> LogRankDelta(s.loc.deltaNum, s.loc.deltaDen)]

(***************************************************************************)
(* ccaSplitAbsoluteDifference                                              *)
(*                                                                         *)
(* The LAPACK/BLAS routines are the backend: what a workspace query        *)
(* answers, the status of dgesvd and the numbers it leaves in S and work   *)
(* are chosen by the backend.  calls is the sequence of the backend calls  *)
(* made so far, a workspace query written with lwork = -1.                 *)
(***************************************************************************)
alloc_dvector(h, nh) == Malloc(h, nh)

dealloc_dvector(s, v) == MFree(s, v)

CcaArgs(n, membership, featureCount, x) ==
  [NoArgs EXCEPT !.n = n, !.membership = membership, !.featureCount = featureCount,
                 !.feature = [r \in 1..featureCount |-> [c \in 1..n |-> IF r = featureCount THEN D(x) ELSE D(0)]]]

\* (int) of a double
Trunc(x) == IF x[1] >= 0 THEN x[1] \div x[2] ELSE -((-x[1]) \div x[2])

Min(x, y) == IF x < y THEN x ELSE y

Size(a, side) == Cardinality({i \in 1..a.n : (a.membership[i] = LEFT) <=> (side = LEFT)})

Routines == <<"dgeqrf X", "dorgqr X", "dgeqrf Y", "dorgqr Y", "dgesvd">>

Corrs == {D(0), <<1, 2>>, D(1)}

Infos == {-1, 0, 1}

\* lines 638-660: the dimensions, the daughters' sizes
CcaDimensions(a) ==
  LET dimX == Trunc(a.feature[a.featureCount][1])
      dimY == a.featureCount - dimX - 1
      counted == dimX > 0 /\ dimY > 0
  IN  [ccaCor |-> D(0), ccaCorRight |-> D(0), ccaCorLeft |-> D(0),
       leftSize |-> IF counted THEN Size(a, LEFT) ELSE 0,
       rghtSize |-> IF counted THEN Size(a, RIGHT) ELSE 0,
       dimX |-> dimX, dimY |-> dimY, minDim |-> Min(dimX, dimY)]

\* as CcaGuard, with a daughter of exactly dimX + dimY members let through
WeakCcaGuard(l) ==
  /\ l.dimX > 0 /\ l.dimY > 0
  /\ (l.leftSize >= (l.dimX + l.dimY)) /\ (l.rghtSize >= (l.dimX + l.dimY))

\* the guards of lines 651 and 660
CcaGuard(l) ==
  /\ l.dimX > 0 /\ l.dimY > 0
  /\ (l.leftSize > (l.dimX + l.dimY)) /\ (l.rghtSize > (l.dimX + l.dimY))

CcaVectors(l) == {l.qrX, l.qrY, l.tauX, l.tauY, l.qMul, l.S}

\* a write of elements 0..count-1 of the buffer p
WriteFault(h, p, count) ==
  UseFault(h, {p}) \cup (IF p \in 1..Len(h) /\ count <= h[p].size THEN {} ELSE {"out of bounds"})

\* lines 694-715 (LEFT) and 777-796 (RIGHT): the daughter's buffers, filled
\* from the daughter's rows; S is allocated for the left daughter only
CcaAllocate(s, side) ==
  LET nRow == IF side = LEFT THEN s.loc.leftSize ELSE s.loc.rghtSize
      Kx == IF nRow < s.loc.dimX THEN nRow ELSE s.loc.dimX
      Ky == IF nRow < s.loc.dimY THEN nRow ELSE s.loc.dimY
      h  == s.heap
      h5 == alloc_dvector(alloc_dvector(alloc_dvector(alloc_dvector(alloc_dvector(h,
              nRow * s.loc.dimX), nRow * s.loc.dimY), Kx), Ky), Kx * Ky)
      h6 == IF side = LEFT THEN alloc_dvector(h5, s.loc.minDim) ELSE h5
      l  == [side |-> side, nRow |-> nRow, lda |-> nRow, Kx |-> Kx, Ky |-> Ky,
             qrX |-> Len(h) + 1, qrY |-> Len(h) + 2, tauX |-> Len(h) + 3, tauY |-> Len(h) + 4,
             qMul |-> Len(h) + 5, S |-> IF side = LEFT THEN Len(h) + 6 ELSE s.loc.S,
             work |-> IF side = LEFT THEN NULL ELSE s.loc.work,
             work_query |-> IF side = LEFT THEN 0 ELSE s.loc.work_query,
             lwork |-> IF side = LEFT THEN 0 ELSE s.loc.lwork,
             info |-> IF side = LEFT THEN 0 ELSE s.loc.info,
             routine |-> 1] @@ s.loc
  IN  [s EXCEPT !.heap = h6, !.loc = l,
                !.fault = @ \cup WriteFault(h6, l.qrX, nRow * s.loc.dimX)
                            \cup WriteFault(h6, l.qrY, nRow * s.loc.dimY)]

\* as WorkspaceSize, with lwork left as it was before the query
StaleWorkspaceSize(work_query, lwork) == lwork

\* lwork = (int) work_query
WorkspaceSize(work_query, lwork) == work_query

\* work = (double*) malloc(sizeof(double) * lwork)
WorkspaceAlloc(h, work, lwork) == [heap |-> Malloc(h, lwork), work |-> Len(h) + 1]

\* what a factorization or decomposition is handed: the workspace is an
\* allocated buffer of lwork elements, of the size its own query answered,
\* and no buffer was allocated after it
WorkspaceFault(h, l) ==
  IF /\ Live(h, l.work) /\ h[l.work].size = l.lwork
     /\ l.lwork = l.work_query
     /\ l.work = Len(h)
  THEN {} ELSE {"stale workspace"}

\* as LargestScalar, with the workspace never looked at
ConvergedScalar(work, i, lwork, best) == best

\* The maximum of best and work[i], ..., work[lwork - 1] (lines 762-766).
RECURSIVE LargestScalar(_, _, _, _)
LargestScalar(work, i, lwork, best) ==
  IF i < lwork
  THEN LargestScalar(work, i + 1, lwork, IF ~DLeq(work[i], best) /\ ~IsNaN(work[i]) /\ ~IsNaN(best) THEN work[i] ELSE best)
  ELSE best

\* lines 758-767
Correlation(info, S0, work, lwork, old) ==
  IF info = 0 THEN S0
  ELSE IF info > 0 THEN LargestScalar(work, 1, lwork, S0)
  ELSE old

\* as CcaDealloc, with S never freed
CcaDeallocKeepingS(s) ==
  dealloc_dvector(dealloc_dvector(dealloc_dvector(dealloc_dvector(dealloc_dvector(s,
    s.loc.qrX), s.loc.qrY), s.loc.qMul), s.loc.tauX), s.loc.tauY)

\* lines 770-774 (and 846-851: S goes with the right daughter's buffers)
CcaDealloc(s) ==
  LET s5 == dealloc_dvector(dealloc_dvector(dealloc_dvector(dealloc_dvector(dealloc_dvector(s,
              s.loc.qrX), s.loc.qrY), s.loc.qMul), s.loc.tauX), s.loc.tauY)
  IN  IF s.loc.side = RIGHT THEN dealloc_dvector(s5, s.loc.S) ELSE s5

\* the square of sqrt(leftSize * rghtSize) * fabs(ccaCorLeft - ccaCorRight)
CcaCor(l) ==
  DMul(D(l.leftSize * l.rghtSize),
       DMul(DSub(l.ccaCorLeft, l.ccaCorRight), DSub(l.ccaCorLeft, l.ccaCorRight)))

Machine == [heap |-> heap, loc |-> loc, tab |-> tab, fault |-> fault]

Goto(label, s) ==
  /\ pc' = label
  /\ heap' = s.heap
  /\ loc' = s.loc
  /\ tab' = s.tab
  /\ fault' = s.fault

CallCca ==
  /\ fn = "none"
  /\ \E n \in 1..MaxNCca, featureCount \in 1..MaxFeatureCount, x \in -1..MaxFeatureCount :
       \E membership \in Memberships(n) : Call("cca", CcaArgs(n, membership, featureCount, x))

\* lines 638-715, and 857 when a guard fails
CcaEnter ==
  /\ fn = "cca" /\ pc = "entry"
  /\ \E l \in {CcaDimensions(args)} :
       IF CcaGuard(l)
       THEN /\ Goto("query", CcaAllocate([Machine EXCEPT !.loc = l], LEFT))
            /\ UNCHANGED ret
       ELSE /\ Goto("done", [Machine EXCEPT !.loc = l])
            /\ ret' = l.ccaCor
  /\ UNCHANGED <<fn, args, calls>>

\* info = 0, lwork = -1; the workspace query; lwork = (int) work_query; malloc
\* (lines 720-723, and the same four lines of each other invocation)
CcaQuery ==
  /\ fn = "cca" /\ pc = "query"
  /\ calls' = Append(calls, <<Routines[loc.routine], -1>>)
  /\ \E work_query \in 1..MaxWork :
       \E w \in {WorkspaceAlloc(heap, loc.work, WorkspaceSize(work_query, -1))} :
         Goto("call", [Machine EXCEPT !.heap = w.heap,
                                      !.loc = [@ EXCEPT !.info = 0, !.work_query = work_query,
                                                        !.lwork = WorkspaceSize(work_query, -1),
                                                        !.work = w.work]])
  /\ UNCHANGED <<fn, args, ret>>

\* dgeqrf or dorgqr with its workspace, then free(work); after the fourth, dgemm
\* (lines 726-727, 733-734, 740-741, 747-750 and 802-826)
CcaFactorize ==
  /\ fn = "cca" /\ pc = "call" /\ loc.routine < 5
  /\ calls' = calls \o <<Routines[loc.routine]>> \o (IF loc.routine = 4 THEN <<"dgemm">> ELSE <<>>)
  /\ LET used == IF loc.routine <= 2 THEN {loc.qrX, loc.tauX, loc.work}
                 ELSE IF loc.routine = 3 THEN {loc.qrY, loc.tauY, loc.work}
                 ELSE {loc.qrX, loc.qrY, loc.tauY, loc.qMul, loc.work}
         s    == [Machine EXCEPT !.fault = @ \cup UseFault(heap, used) \cup WorkspaceFault(heap, loc)]
     IN  Goto("query", [MFree(s, loc.work) EXCEPT !.loc.routine = @ + 1])
  /\ UNCHANGED <<fn, args, ret>>

\* dgesvd with its workspace, then the correlation from its status, S[0] and
\* the workspace (lines 756-767 and 832-843)
CcaSvd ==
  /\ fn = "cca" /\ pc = "call" /\ loc.routine = 5
  /\ calls' = Append(calls, Routines[loc.routine])
  /\ \E info \in Infos, S0 \in Corrs, work \in [0..(loc.lwork - 1) -> Corrs] :
       LET old == IF loc.side = LEFT THEN loc.ccaCorLeft ELSE loc.ccaCorRight
           cor == Correlation(info, S0, work, loc.lwork, old)
       IN  Goto("release",
                [Machine EXCEPT !.fault = @ \cup UseFault(heap, {loc.qMul, loc.S, loc.work})
                                            \cup WorkspaceFault(heap, loc),
                                !.loc.info = info,
                                !.loc.ccaCorLeft = IF loc.side = LEFT THEN cor ELSE @,
                                !.loc.ccaCorRight = IF loc.side = RIGHT THEN cor ELSE @,
                                !.tab = [S0 |-> S0, work |-> work]])
  /\ UNCHANGED <<fn, args, ret>>

\* free(work), the daughter's buffers freed; then the right daughter's
\* buffers, or the result (lines 768-796 and 844-857)
CcaRelease ==
  /\ fn = "cca" /\ pc = "release"
  /\ \E s1 \in {CcaDealloc(MFree([Machine EXCEPT !.tab = <<>>], loc.work))} :
       IF loc.side = LEFT
       THEN /\ Goto("query", CcaAllocate(s1, RIGHT))
            /\ UNCHANGED ret
       ELSE /\ Goto("done", [s1 EXCEPT !.loc.ccaCor = CcaCor(s1.loc)])
            /\ ret' = CcaCor(s1.loc)
  /\ UNCHANGED <<fn, args, calls>>

CallSurvival ==
  /\ fn = "none"
  /\ \E n \in 0..MaxN, eventTime \in EventTimes :
       \E membership \in Memberships(n), time \in Times(n), event \in Events(n, 1) :
         Call("survival", SurvivalArgs(n, membership, time, event, 1, eventTime))

Survival ==
  /\ fn = "survival" /\ pc = "entry"
  /\ \E r \in {getCustomSplitStatisticSurvival(heap, fault, args)} : Return(r)

CallCompetingRisk ==
  /\ fn = "none"
  /\ \E n \in 0..MaxNCompetingRisk, eventTime \in EventTimes, eventTypeSize \in 1..MaxEventType :
       \E membership \in Memberships(n), time \in Times(n), event \in Events(n, eventTypeSize) :
         Call("competingRisk", SurvivalArgs(n, membership, time, event, eventTypeSize, eventTime))

CompetingRisk ==
  /\ fn = "competingRisk" /\ pc = "entry"
  /\ \E r \in {getCustomSplitStatisticCompetingRisk(heap, fault, args)} : Return(r)

CallRegression ==
  /\ fn = "none"
  /\ \E n \in 0..MaxNResponse, mean \in 0..MaxResponse, variance \in 0..MaxVariance :
       \E membership \in Memberships(n), response \in [1..n -> 0..MaxResponse] :
         Call("regression", RegressionArgs(n, membership, [i \in 1..n |-> D(response[i])], D(mean), D(variance)))

Regression ==
  /\ fn = "regression" /\ pc = "entry"
  /\ \E r \in {getCustomSplitStatisticMultivariateRegression(heap, fault, args)} : Return(r)

CallClassification ==
  /\ fn = "none"
  /\ \E n \in 0..MaxNResponse, maxLevel \in 1..MaxLevel :
       \E membership \in Memberships(n), response \in [1..n -> 1..maxLevel] :
         Call("classification", ClassificationArgs(n, membership, [i \in 1..n |-> D(response[i])], maxLevel))

Classification ==
  /\ fn = "classification" /\ pc = "entry"
  /\ \E r \in {getCustomSplitStatisticMultivariateClassification(heap, fault, args)} : Return(r)

(***************************************************************************)
(* The log-rank statistics with the sweep taken one iteration of its while *)
(* loop at a time: loc.i and loc.k are the two pointers.                   *)
(***************************************************************************)
\* as SurvivalSweepIteration, with k also decremented when i is
DoubleStepIteration(a, i, k, t) ==
  IF a.eventTime[k] <= a.time[i]
  THEN [i |-> i - 1, k |-> k - 1, tab |-> SurvivalSweepLoop(a, i, k, t)]
  ELSE [i |-> i, k |-> k - 1, tab |-> [t EXCEPT !.iterations = @ + 1]]

\* one iteration of the while loop of lines 331-364, entered with i > 0 and k > 0
SurvivalSweepIteration(a, i, k, t) ==
  IF a.eventTime[k] <= a.time[i]
  THEN LET left == a.membership[i] = LEFT
           died == a.eventTime[k] = a.time[i] /\ a.event[i] > 0
       IN  [i |-> i - 1, k |-> k,
            tab |-> [t EXCEPT !.nodeParentAtRisk[k] = @ + 1,
                              !.nodeLeftAtRisk[k] = IF left THEN @ + 1 ELSE @,
                              !.nodeParentEvent[k] = IF died THEN @ + 1 ELSE @,
                              !.nodeLeftEvent[k] = IF died /\ left THEN @ + 1 ELSE @,
                              !.iterations = @ + 1]]
  ELSE [i |-> i, k |-> k - 1, tab |-> [t EXCEPT !.iterations = @ + 1]]

\* one iteration of the while loop of lines 498-534, entered with i > 0 and k > 0
CompetingRiskSweepIteration(a, i, k, t) ==
  IF a.eventTime[k] <= a.time[i]
  THEN LET left == a.membership[i] = LEFT
           died == a.eventTime[k] = a.time[i] /\ a.event[i] > 0
           t1 == [t EXCEPT !.nodeParentAtRisk[k] = @ + 1,
                           !.nodeLeftAtRisk[k] = IF left THEN @ + 1 ELSE @,
                           !.nodeParentEvent[k] = IF died THEN @ + 1 ELSE @,
                           !.iterations = @ + 1]
           t2 == IF died THEN [t1 EXCEPT !.nodeParentEventCR[a.event[i]][k] = @ + 1] ELSE t1
           t3 == IF died /\ left THEN [t2 EXCEPT !.nodeLeftEventCR[a.event[i]][k] = @ + 1] ELSE t2
       IN  [i |-> i - 1, k |-> k, tab |-> t3]
  ELSE [i |-> i, k |-> k - 1, tab |-> [t EXCEPT !.iterations = @ + 1]]

CallSweep ==
  /\ fn = "none"
  /\ \/ \E n \in 0..MaxNSweep, eventTime \in EventTimes :
          \E membership \in Memberships(n), time \in Times(n), event \in Events(n, 1) :
            Call("survival", SurvivalArgs(n, membership, time, event, 1, eventTime))
     \/ \E n \in 0..MaxNCompetingRisk, eventTime \in EventTimes, eventTypeSize \in 1..MaxEventType :
          \E membership \in Memberships(n), time \in Times(n), event \in Events(n, eventTypeSize) :
            Call("competingRisk", SurvivalArgs(n, membership, time, event, eventTypeSize, eventTime))

\* lines 306-327 and 456-494: up to the while loop
SweepEnter ==
  /\ fn \in {"survival", "competingRisk"} /\ pc = "entry"
  /\ Goto("sweep", IF fn = "survival" THEN SurvivalAllocate(heap, fault, args)
                   ELSE CompetingRiskAllocate(heap, fault, args))
  /\ UNCHANGED <<fn, args, calls, ret>>

\* one iteration of the while loop
SweepIterate ==
  /\ fn \in {"survival", "competingRisk"} /\ pc = "sweep"
  /\ (loc.i > 0) /\ (loc.k > 0)
  /\ \E r \in {IF fn = "survival" THEN SurvivalSweepIteration(args, loc.i, loc.k, tab)
                ELSE CompetingRiskSweepIteration(args, loc.i, loc.k, tab)} :
       Goto("sweep", [IF fn = "survival" THEN MUse(Machine, SurvivalVectors(loc)) ELSE MUseCR(args, Machine)
                        EXCEPT !.loc.i = r.i, !.loc.k = r.k, !.tab = r.tab])
  /\ UNCHANGED <<fn, args, calls, ret>>

\* the while loop is left; the rest of the function, to its return
\* (lines 366-412 and 536-618)
SweepExit ==
  /\ fn \in {"survival", "competingRisk"} /\ pc = "sweep"
  /\ ~((loc.i > 0) /\ (loc.k > 0))
  /\ \E s \in {IF fn = "survival"
                THEN SurvivalDealloc(SurvivalAccumulate(args, SurvivalStepFunction(args, Machine)))
                ELSE CompetingRiskDealloc(args, CompetingRiskAccumulate(args,
                       CompetingRiskInclusive(args, CompetingRiskStepFunction(args, Machine))))} :
       Return([heap |-> s.heap, loc |-> s.loc, tab |-> s.tab, fault |-> s.fault,
               ret |-> LogRankDelta(s.loc.deltaNum, s.loc.deltaDen)])

(***************************************************************************)
(* The buffer utilities on their own: a caller allocates and frees         *)
(* vectors and matrices; tab is the sequence of the requests whose buffer  *)
(* is still allocated, [kind, v, n2h, nh].                                 *)
(***************************************************************************)
Request(kind, v, n2h, nh) == [kind |-> kind, v |-> v, n2h |-> n2h, nh |-> nh]

Utilities(h, requests) ==
  /\ fn \in {"none", "utilities"}
  /\ fn' = "utilities"
  /\ heap' = h
  /\ tab' = requests
  /\ UNCHANGED <<pc, args, loc, fault, calls, ret>>

AllocUivector ==
  /\ Len(heap) < MaxBuffers
  /\ \E nh \in 0..MaxNh :
       Utilities(alloc_uivector(heap, nh), Append(tab, Request("uivector", Len(heap) + 1, 0, nh)))

AllocDvector ==
  /\ Len(heap) < MaxBuffers
  /\ \E nh \in 0..MaxNh :
       Utilities(alloc_dvector(heap, nh), Append(tab, Request("dvector", Len(heap) + 1, 0, nh)))

AllocUimatrix ==
  \E n2h \in 0..MaxNh, nh \in 0..MaxNh :
    /\ Len(heap) + n2h < MaxBuffers
    /\ Utilities(alloc_uimatrix(heap, n2h, nh), Append(tab, Request("uimatrix", Len(heap) + 1, n2h, nh)))

Dealloc ==
  /\ fn = "utilities"
  /\ \E i \in 1..Len(tab) :
       LET r == tab[i]
           rest == SubSeq(tab, 1, i - 1) \o SubSeq(tab, i + 1, Len(tab))
       IN  /\ Utilities(IF r.kind = "uivector" THEN dealloc_uivector(heap, r.v)
                        ELSE IF r.kind = "dvector" THEN dealloc_dvector(Machine, r.v).heap
                        ELSE dealloc_uimatrix(Machine, r.v, r.n2h).heap,
                        rest)

\* The worked example of the survival statistic: four members observed at
\* the times 1, 2, 3, 4 on the grid 1, 3, 4.
ExampleTime == <<1, 2, 3, 4>>

ExampleEventTime == <<1, 3, 4>>

ExampleArgs ==
  SurvivalArgs(Len(ExampleTime), <<LEFT, RIGHT, LEFT, RIGHT>>, ExampleTime, <<1, 0, 1, 1>>, 1, ExampleEventTime)

\* The caller invokes the survival statistic on the example's times and grid,
\* with any membership and any event indicators.
CallExample ==
  /\ fn = "none"
  /\ \E membership \in Memberships(Len(ExampleTime)), event \in Events(Len(ExampleTime), 1) :
       Call("survival", SurvivalArgs(Len(ExampleTime), membership, ExampleTime, event, 1, ExampleEventTime))

Init ==
  /\ fn = "none"
  /\ pc = "idle"
  /\ args = NoArgs
  /\ loc = <<>>
  /\ tab = <<>>
  /\ calls = <<>>
  /\ heap = <<>>
  /\ fault = {}
  /\ ret = NaN

NextLogRank ==
  \/ CallSurvival
  \/ Survival
  \/ CallCompetingRisk
  \/ CompetingRisk

SpecLogRank == Init /\ [][NextLogRank]_vars

NextResponse ==
  \/ CallRegression
  \/ Regression
  \/ CallClassification
  \/ Classification

SpecResponse == Init /\ [][NextResponse]_vars

NextCca ==
  \/ CallCca
  \/ CcaEnter
  \/ CcaQuery
  \/ CcaFactorize
  \/ CcaSvd
  \/ CcaRelease

SpecCca == Init /\ [][NextCca]_vars

NextExample ==
  \/ CallExample
  \/ Survival

SpecExample == Init /\ [][NextExample]_vars

NextSweep ==
  \/ CallSweep
  \/ SweepEnter
  \/ SweepIterate
  \/ SweepExit

SpecSweep == Init /\ [][NextSweep]_vars

NextUtilities ==
  \/ AllocUivector
  \/ AllocDvector
  \/ AllocUimatrix
  \/ Dealloc

SpecUtilities == Init /\ [][NextUtilities]_vars

Next ==
  \/ NextLogRank
  \/ NextResponse
  \/ NextCca

Spec == Init /\ [][Next]_vars

(***************************************************************************)
(* Properties                                                              *)
(***************************************************************************)
Returned(name) == fn = name /\ pc = "done"

LogRankReturned == Returned("survival") \/ Returned("competingRisk")

Positive(x) == IsFin(x) /\ x[1] > 0

C2_AtRiskMonotone ==
  LogRankReturned =>
    /\ \A k \in 1..(args.eventTimeSize - 1) : tab.nodeParentAtRisk[k] >= tab.nodeParentAtRisk[k + 1]
    /\ \A k \in 1..args.eventTimeSize :
         /\ tab.nodeParentAtRisk[k] >= tab.nodeLeftAtRisk[k]
         /\ tab.nodeLeftAtRisk[k] >= 0

\* a call whose risk sets shrink strictly along the grid, the left daughter
\* strictly inside the parent
C2_Witness ==
  /\ LogRankReturned /\ args.eventTimeSize >= 2
  /\ tab.nodeParentAtRisk[1] > tab.nodeParentAtRisk[2]
  /\ tab.nodeParentAtRisk[2] > 0
  /\ tab.nodeLeftAtRisk[1] > tab.nodeLeftAtRisk[2]
  /\ tab.nodeLeftAtRisk[1] < tab.nodeParentAtRisk[1]

\* C3: on the worked example (times 1,2,3,4, events 1,0,1,1, membership
\* L,R,L,R, grid 1,3,4) the tables are parent at risk 4,2,1, left at risk
\* 2,1,0, parent events 1,1,1, left events 1,1,0; the numerator is 1, the
\* denominator 1/2 and the statistic sqrt(2) (ret holds its square, 2).
C3_WorkedExample ==
  (Returned("survival") /\ args = ExampleArgs) =>
    /\ tab.nodeParentAtRisk = <<4, 2, 1>>
    /\ tab.nodeLeftAtRisk = <<2, 1, 0>>
    /\ tab.nodeParentEvent = <<1, 1, 1>>
    /\ tab.nodeLeftEvent = <<1, 1, 0>>
    /\ DAbs(loc.deltaNum) = D(1)
    /\ loc.deltaDen = <<1, 2>>
    /\ ret = D(2)

\* the survival statistic has returned from the worked example
C3_Witness == Returned("survival") /\ args = ExampleArgs /\ Positive(ret)

\* C4: both log-rank statistics return exactly 0 when sqrt(deltaDen) <= 1e-9
\* and |deltaNum| <= 1e-9, and |deltaNum| / sqrt(deltaDen) in every other
\* case; with both sums zero the value returned is 0, not NaN.
C4_ZeroGuard ==
  LogRankReturned =>
    /\ ret = IF SqrtLeqEps(loc.deltaDen) /\ LeqEps(DAbs(loc.deltaNum))
             THEN D(0)
             ELSE QuotientSq(DAbs(loc.deltaNum), loc.deltaDen)
    /\ (loc.deltaNum = D(0) /\ loc.deltaDen = D(0)) => (ret = D(0) /\ ~IsNaN(ret))

\* a call on a non-empty node and a non-empty grid whose two sums are both zero
C4_Witness ==
  /\ LogRankReturned /\ args.n > 0 /\ args.eventTimeSize > 0
  /\ loc.deltaNum = D(0) /\ loc.deltaDen = D(0)
  /\ ret = D(0)

\* C5: dimX is the truncated value of feature[featureCount][1] and dimY is
\* featureCount - dimX - 1; when dimX <= 0, dimY <= 0, or a daughter has at
\* most dimX + dimY members, the function returns 0 without allocating a
\* buffer and without calling the backend.
C5_GuardReturnsZero ==
  (fn = "cca" /\ pc # "entry") =>
    /\ loc.dimX = Trunc(args.feature[args.featureCount][1])
    /\ loc.dimY = args.featureCount - loc.dimX - 1
    /\ (\/ loc.dimX <= 0
        \/ loc.dimY <= 0
        \/ Size(args, LEFT) <= loc.dimX + loc.dimY
        \/ Size(args, RIGHT) <= loc.dimX + loc.dimY)
       => (pc = "done" /\ ret = D(0) /\ heap = <<>> /\ calls = <<>>)

\* a call with positive dimensions and a left daughter of exactly dimX + dimY
\* members has returned
C5_Witness ==
  /\ Returned("cca") /\ loc.dimX > 0 /\ loc.dimY > 0
  /\ Size(args, LEFT) = loc.dimX + loc.dimY
  /\ Size(args, RIGHT) > loc.dimX + loc.dimY
  /\ ret = D(0)

AllAtMean ==
  /\ Returned("regression")
  /\ loc.leftSize > 0 /\ loc.rghtSize > 0
  /\ \A i \in 1..args.n : args.response[i] = args.mean

\* C6 as stated: when both daughters are non-empty and every response equals
\* mean, the regression statistic returns 0.
C6_AllAtMeanIsZero == AllAtMean => ret = D(0)

\* C6: when both daughters are non-empty, every response equals mean and
\* variance is not zero, the regression statistic returns 0; with variance
\* zero it returns NaN.
C6_AllAtMeanNonzeroVariance ==
  AllAtMean => ret = IF args.variance = D(0) THEN NaN ELSE D(0)

\* every response at a non-zero mean, under a non-zero variance
C6_Witness ==
  /\ AllAtMean /\ args.variance # D(0) /\ args.mean # D(0)
  /\ ret = D(0)

Pure(side) ==
  \A i, j \in 1..args.n :
    (args.membership[i] = side /\ args.membership[j] = side) => args.response[i] = args.response[j]

\* C7: with both daughters non-empty the classification statistic is at most
\* leftSize + rghtSize, and it equals leftSize + rghtSize when each daughter
\* holds a single class.
C7_PureDaughtersMaximal ==
  (Returned("classification") /\ loc.leftSize > 0 /\ loc.rghtSize > 0) =>
    /\ DLeq(ret, D(loc.leftSize + loc.rghtSize))
    /\ (Pure(LEFT) /\ Pure(RIGHT)) => ret = D(loc.leftSize + loc.rghtSize)

\* two pure daughters of different classes and different sizes
C7_Witness ==
  /\ Returned("classification") /\ loc.leftSize > 1 /\ loc.rghtSize > 0
  /\ Pure(LEFT) /\ Pure(RIGHT)
  /\ \E i, j \in 1..args.n : args.response[i] # args.response[j]
  /\ ret = D(args.n)

Proportional ==
  \A k \in 1..args.eventTimeSize :
    /\ tab.nodeParentAtRisk[k] >= 1
    /\ tab.nodeLeftEvent[k] * tab.nodeParentAtRisk[k] = tab.nodeLeftAtRisk[k] * tab.nodeParentEvent[k]

\* C8: when at every grid time the parent risk set is non-empty and the left
\* events are to the parent events as the left risk set is to the parent risk
\* set, the survival numerator is 0 and the statistic returned is 0.
C8_ProportionalIsZero ==
  (Returned("survival") /\ Proportional) => (loc.deltaNum = D(0) /\ ret = D(0))

\* proportional events at a grid time where members of both daughters die
C8_Witness ==
  /\ Returned("survival") /\ Proportional
  /\ \E k \in 1..args.eventTimeSize :
       /\ tab.nodeLeftEvent[k] > 0
       /\ tab.nodeLeftEvent[k] < tab.nodeParentEvent[k]
  /\ Positive(loc.deltaDen)

\* C9: no statistic frees a buffer twice or uses a freed buffer, and when a
\* statistic returns, on any path, every buffer it allocated has been freed.
C9_BuffersReleasedOnce ==
  /\ fault \cap {"double free", "use after free"} = {}
  /\ pc = "done" => \A p \in 1..Len(heap) : ~heap[p].live

\* the CCA statistic has returned after a decomposition that did not converge,
\* having allocated buffers
C9_Witness ==
  /\ Returned("cca") /\ Len(heap) > 0 /\ "info" \in DOMAIN loc
  /\ loc.info > 0

\* the backend calls of one daughter
DaughterCalls ==
  <<<<"dgeqrf X", -1>>, "dgeqrf X", <<"dorgqr X", -1>>, "dorgqr X",
    <<"dgeqrf Y", -1>>, "dgeqrf Y", <<"dorgqr Y", -1>>, "dorgqr Y", "dgemm",
    <<"dgesvd", -1>>, "dgesvd">>

\* C10: the backend calls of each daughter are, in this order, for each of
\* dgeqrf X, dorgqr X, dgeqrf Y, dorgqr Y and dgesvd a workspace query
\* (lwork = -1) followed by the real call; the real call is handed a live
\* workspace of exactly the size its own query answered, allocated after the
\* query, and the workspace is freed before the next query.
C10_WorkspaceProtocol ==
  fn = "cca" =>
    /\ "stale workspace" \notin fault
    /\ \E m \in 0..Len(DaughterCalls \o DaughterCalls) :
         calls = SubSeq(DaughterCalls \o DaughterCalls, 1, m)
    /\ pc = "call" =>
         /\ WorkspaceFault(heap, loc) = {}
         /\ calls[Len(calls)] = <<Routines[loc.routine], -1>>
    /\ pc = "query" => ~Live(heap, loc.work)
    /\ (pc = "done" /\ calls # <<>>) =>
         /\ calls = DaughterCalls \o DaughterCalls
         /\ ~Live(heap, loc.work)

\* all ten invocations made, with workspaces of more than one element
C10_Witness ==
  /\ Returned("cca") /\ calls = DaughterCalls \o DaughterCalls
  /\ loc.lwork > 1

Elements(p) == IF Live(heap, p) THEN heap[p].size ELSE -1

MatrixAsStated(r) ==
  /\ Elements(r.v) = r.n2h + 1
  /\ Len(heap[r.v].rows) = r.n2h
  /\ \A i \in 1..r.n2h : Elements(Row(heap, r.v, i)) = r.nh + 1

\* C11 as stated: alloc_uivector(n) and alloc_dvector(n) each return a buffer
\* of n + 1 elements, and alloc_uimatrix(rows, cols) returns rows + 1 row
\* pointers whose rows 1..rows each hold cols + 1 elements.
C11_EveryVectorHasSentinel ==
  fn = "utilities" =>
    \A i \in 1..Len(tab) :
      IF tab[i].kind = "uimatrix" THEN MatrixAsStated(tab[i])
      ELSE Elements(tab[i].v) = tab[i].nh + 1

\* C11: alloc_uivector(n) returns a buffer of n + 1 elements, alloc_dvector(n)
\* a buffer of exactly n elements (indices 0..n-1), and alloc_uimatrix(rows,
\* cols) returns rows + 1 row pointers whose rows 1..rows each hold cols + 1
\* elements.
C11_BufferSizes ==
  fn = "utilities" =>
    \A i \in 1..Len(tab) :
      IF tab[i].kind = "uimatrix" THEN MatrixAsStated(tab[i])
      ELSE IF tab[i].kind = "uivector" THEN Elements(tab[i].v) = tab[i].nh + 1
      ELSE Elements(tab[i].v) = tab[i].nh

\* a matrix with rows, an integer vector and a real vector allocated together
C11_Witness ==
  /\ fn = "utilities"
  /\ \E i, j, k \in 1..Len(tab) :
       /\ tab[i].kind = "uimatrix" /\ tab[i].n2h > 0 /\ tab[i].nh > 0
       /\ tab[j].kind = "uivector" /\ tab[j].nh > 0
       /\ tab[k].kind = "dvector" /\ tab[k].nh > 0

\* the number of observations i that satisfy Test
Count(Test(_)) == Cardinality({i \in 1..args.n : Test(i)})

\* the grid time observation i is swept at: the largest k with eventTime[k] <= time[i]
SweptAt(i, k) ==
  /\ args.eventTime[k] <= args.time[i]
  /\ \A k2 \in (k + 1)..args.eventTimeSize : args.eventTime[k2] > args.time[i]

RECURSIVE SumOverCauses(_, _, _)
SumOverCauses(cr, j, k) == IF j > Len(cr) THEN 0 ELSE cr[j][k] + SumOverCauses(cr, j + 1, k)

\* the tables as the sweep leaves them, before the step-function loop
Swept ==
  IF fn = "survival"
  THEN SurvivalSweepLoop(args, args.n, args.eventTimeSize, ZeroTables(args.eventTimeSize))
  ELSE CompetingRiskSweepLoop(args, args.n, args.eventTimeSize,
                              ZeroTablesCR(args.eventTypeSize, args.eventTimeSize))

\* C12: after the sweep and the suffix sum, at every grid time k the parent
\* at-risk count is the number of observations with time[i] >= eventTime[k],
\* the left at-risk count the number of those that are LEFT, the parent event
\* count the number of observations with time[i] = eventTime[k] and
\* event[i] > 0, the left event count the number of those that are LEFT; and
\* the sweep counts each observation at the largest grid time not after its
\* time, and an observation before the first grid time nowhere.
C12_TablesCountObservations ==
  LogRankReturned =>
    \A k \in 1..args.eventTimeSize :
      LET AtRisk(i) == args.time[i] >= args.eventTime[k]
          LeftAtRisk(i) == AtRisk(i) /\ args.membership[i] = LEFT
          Died(i) == args.time[i] = args.eventTime[k] /\ args.event[i] > 0
          LeftDied(i) == Died(i) /\ args.membership[i] = LEFT
          Here(i) == SweptAt(i, k)
          LeftHere(i) == SweptAt(i, k) /\ args.membership[i] = LEFT
      IN  /\ tab.nodeParentAtRisk[k] = Count(AtRisk)
          /\ tab.nodeLeftAtRisk[k] = Count(LeftAtRisk)
          /\ tab.nodeParentEvent[k] = Count(Died)
          /\ fn = "survival" => tab.nodeLeftEvent[k] = Count(LeftDied)
          /\ fn = "competingRisk" =>
               /\ SumOverCauses(tab.nodeLeftEventCR, 1, k) = Count(LeftDied)
               /\ SumOverCauses(tab.nodeParentEventCR, 1, k) = Count(Died)
          /\ Swept.nodeParentAtRisk[k] = Count(Here)
          /\ Swept.nodeLeftAtRisk[k] = Count(LeftHere)

\* a call with an observation before the first grid time, a LEFT death on the
\* grid and a death that falls between grid times
C12_Witness ==
  /\ LogRankReturned /\ args.eventTimeSize > 0
  /\ \E i \in 1..args.n : args.time[i] < args.eventTime[1]
  /\ \E i \in 1..args.n, k \in 1..args.eventTimeSize :
       args.time[i] = args.eventTime[k] /\ args.event[i] > 0 /\ args.membership[i] = LEFT
  /\ \E i \in 1..args.n :
       /\ args.event[i] > 0
       /\ \A k \in 1..args.eventTimeSize : args.time[i] # args.eventTime[k]

\* the sum of f over the finite set S
RECURSIVE SumOver(_, _)
SumOver(S, f) ==
  IF S = {} THEN 0
  ELSE LET x == CHOOSE y \in S : TRUE IN f[x] + SumOver(S \ {x}, f)

\* the events of the causes other than j at the grid times before k
EarlierOtherCause(cr, j, k) ==
  LET cells == {c \in (1..args.eventTypeSize) \X (1..(k - 1)) : c[1] # j}
  IN  SumOver(cells, [c \in cells |-> cr[c[1]][c[2]]])

\* C13: for every cause j and grid time k the inclusive at-risk count is the
\* at-risk count at k plus the events of every other cause at every earlier
\* grid time, for the parent and for the LEFT tables; so the left inclusive
\* count is at most the parent inclusive count, which is at most n.
C13_InclusiveAtRisk ==
  Returned("competingRisk") =>
    \A j \in 1..args.eventTypeSize, k \in 1..args.eventTimeSize :
      /\ tab.nodeParentInclusiveAtRisk[j][k]
           = tab.nodeParentAtRisk[k] + EarlierOtherCause(tab.nodeParentEventCR, j, k)
      /\ tab.nodeLeftInclusiveAtRisk[j][k]
           = tab.nodeLeftAtRisk[k] + EarlierOtherCause(tab.nodeLeftEventCR, j, k)
      /\ tab.nodeLeftInclusiveAtRisk[j][k] <= tab.nodeParentInclusiveAtRisk[j][k]
      /\ tab.nodeParentInclusiveAtRisk[j][k] <= args.n

\* a LEFT death of another cause at an earlier grid time adds to both
\* inclusive counts
C13_Witness ==
  /\ Returned("competingRisk")
  /\ \E j \in 1..args.eventTypeSize, k \in 1..args.eventTimeSize :
       /\ tab.nodeLeftInclusiveAtRisk[j][k] > tab.nodeLeftAtRisk[k]
       /\ tab.nodeParentInclusiveAtRisk[j][k] > tab.nodeLeftInclusiveAtRisk[j][k]
       /\ tab.nodeParentAtRisk[k] > 0

\* the greatest of a finite non-empty set of doubles
Greatest(S) == CHOOSE x \in S : \A y \in S : DLeq(y, x)

\* dgesvd has just returned for the daughter `side`
SvdReturned(side) ==
  /\ fn = "cca"
  /\ pc = "release"
  /\ loc.side = side

Cor(side) == IF side = LEFT THEN loc.ccaCorLeft ELSE loc.ccaCorRight

CcaResult ==
  (fn = "cca" /\ pc = "done" /\ calls # <<>>) =>
    ret = DMul(D(loc.leftSize * loc.rghtSize),
               DMul(DSub(loc.ccaCorLeft, loc.ccaCorRight), DSub(loc.ccaCorLeft, loc.ccaCorRight)))

\* C14 as stated: when dgesvd returns a status > 0 the daughter's correlation
\* is the maximum of S[0] and every entry of the work buffer of length lwork;
\* with status 0 it is S[0]; the function still returns
\* sqrt(leftSize * rghtSize) * |corrLeft - corrRight|.
C14_FallbackOverWholeWorkspace ==
  /\ \A side \in {LEFT, RIGHT} :
       SvdReturned(side) =>
         /\ loc.info = 0 => Cor(side) = tab.S0
         /\ loc.info > 0 =>
              Cor(side) = Greatest({tab.S0} \cup {tab.work[i] : i \in 0..(loc.lwork - 1)})
  /\ CcaResult

\* C14: when dgesvd returns a status > 0 the daughter's correlation is the
\* maximum of S[0] and the entries work[1], ..., work[lwork - 1]; work[0] is
\* not looked at; with status 0 it is S[0]; the function still returns
\* sqrt(leftSize * rghtSize) * |corrLeft - corrRight|.
C14_FallbackSkipsFirstEntry ==
  /\ \A side \in {LEFT, RIGHT} :
       SvdReturned(side) =>
         /\ loc.info = 0 => Cor(side) = tab.S0
         /\ loc.info > 0 =>
              Cor(side) = Greatest({tab.S0} \cup {tab.work[i] : i \in 1..(loc.lwork - 1)})
  /\ CcaResult

\* dgesvd did not converge for the right daughter, work[1] is above S[0] and
\* work[0] is above both
C14_Witness ==
  /\ SvdReturned(RIGHT) /\ loc.info > 0 /\ loc.lwork > 1
  /\ ~DLeq(tab.work[1], tab.S0)
  /\ ~DLeq(tab.work[0], tab.work[1])

Atomic ==
  IF fn = "survival" THEN getCustomSplitStatisticSurvival(<<>>, {}, args)
  ELSE getCustomSplitStatisticCompetingRisk(<<>>, {}, args)

\* C15: the sweep counts one iteration for every decrement of i or of k, which
\* stay within 0..n and 0..eventTimeSize, so it ends after at most
\* n + eventTimeSize iterations; the remaining loops then run to the return,
\* and the value returned is the one of the statistic.
C15_SweepTerminates ==
  /\ (fn \in {"survival", "competingRisk"} /\ pc = "sweep") =>
       /\ loc.i \in 0..args.n
       /\ loc.k \in 0..args.eventTimeSize
       /\ tab.iterations = (args.n - loc.i) + (args.eventTimeSize - loc.k)
       /\ Swept = IF fn = "survival" THEN SurvivalSweepLoop(args, loc.i, loc.k, tab)
                  ELSE CompetingRiskSweepLoop(args, loc.i, loc.k, tab)
  /\ LogRankReturned =>
       /\ tab.iterations <= args.n + args.eventTimeSize
       /\ loc.i = 0 \/ loc.k = 0
       /\ tab = Atomic.tab
       /\ ret = Atomic.ret
       /\ fault = {}

\* a call whose sweep took n + eventTimeSize - 1 iterations, more than one of
\* each kind
C15_Witness ==
  /\ LogRankReturned /\ "i" \in DOMAIN loc /\ loc.k = 1 /\ loc.i = 0
  /\ args.n > 1 /\ args.eventTimeSize > 1
  /\ tab.iterations = args.n + args.eventTimeSize - 1

\* C16: at every grid time with at least two at risk the differences of the
\* denominator are taken between counts in the right order and the divisor
\* is at least 1: parentEvent <= parentAtRisk in the survival statistic,
\* parentEventCR <= parentInclusiveAtRisk and parentInclusiveAtRisk - 1 >= 1
\* for every cause in the competing-risk statistic; every denominator term
\* is >= 0 and so is the sum handed to sqrt.
C16_DenominatorCounts ==
  LogRankReturned =>
    /\ \A k \in 1..args.eventTimeSize :
         tab.nodeParentAtRisk[k] >= 2 =>
           /\ tab.nodeLeftAtRisk[k] <= tab.nodeParentAtRisk[k]
           /\ fn = "survival" =>
                /\ tab.nodeParentEvent[k] <= tab.nodeParentAtRisk[k]
                /\ tab.nodeParentAtRisk[k] - 1 >= 1
                /\ DLeq(D(0), SurvivalDenTerm(tab, k))
           /\ fn = "competingRisk" =>
                \A j \in 1..args.eventTypeSize :
                  /\ tab.nodeParentEventCR[j][k] <= tab.nodeParentInclusiveAtRisk[j][k]
                  /\ tab.nodeLeftInclusiveAtRisk[j][k] <= tab.nodeParentInclusiveAtRisk[j][k]
                  /\ tab.nodeParentInclusiveAtRisk[j][k] - 1 >= 1
                  /\ DLeq(D(0), CompetingRiskDenTerm(tab, j, k))
    /\ IsFin(loc.deltaDen)
    /\ DLeq(D(0), loc.deltaDen)

\* a grid time with both daughters at risk where some, not all, of those at
\* risk die
C16_Witness ==
  /\ LogRankReturned
  /\ \E k \in 1..args.eventTimeSize :
       /\ tab.nodeParentAtRisk[k] >= 2
       /\ tab.nodeParentEvent[k] > 0
       /\ tab.nodeParentEvent[k] < tab.nodeParentAtRisk[k]
       /\ tab.nodeLeftAtRisk[k] > 0
       /\ tab.nodeLeftAtRisk[k] < tab.nodeParentAtRisk[k]
  /\ Positive(loc.deltaDen)

\* every grid time is the time of at least one observation
GridObserved ==
  \A k \in 1..args.eventTimeSize : \E i \in 1..args.n : args.time[i] = args.eventTime[k]

\* some divisor of the numerator is zero
ZeroDivisor ==
  \E k \in 1..args.eventTimeSize :
    IF fn = "survival" THEN tab.nodeParentAtRisk[k] = 0
    ELSE \E j \in 1..args.eventTypeSize : tab.nodeParentInclusiveAtRisk[j][k] = 0

\* the grid ends after the last observation
GridPastLastTime ==
  /\ args.eventTimeSize > 0
  /\ \A i \in 1..args.n : args.eventTime[args.eventTimeSize] > args.time[i]

\* C17: when every grid time is the time of at least one observation, the
\* parent at-risk count and every parent inclusive at-risk count are at least
\* 1 at every grid time, and the numerator is a finite number; a divisor of
\* the numerator is zero only when the last grid time is after the time of
\* the last observation (in the survival statistic, exactly then), and the
\* numerator is then NaN.
C17_NumeratorDivisors ==
  LogRankReturned =>
    /\ GridObserved =>
         /\ \A k \in 1..args.eventTimeSize :
              /\ tab.nodeParentAtRisk[k] >= 1
              /\ fn = "competingRisk" =>
                   \A j \in 1..args.eventTypeSize : tab.nodeParentInclusiveAtRisk[j][k] >= 1
         /\ IsFin(loc.deltaNum)
    /\ ZeroDivisor => GridPastLastTime
    /\ (fn = "survival" /\ GridPastLastTime) => ZeroDivisor
    /\ ZeroDivisor => IsNaN(loc.deltaNum)

\* a grid of two observed times, with observations before and between them
C17_Witness ==
  /\ LogRankReturned /\ GridObserved /\ args.eventTimeSize > 1
  /\ args.n > args.eventTimeSize
  /\ \E i \in 1..args.n : args.event[i] > 0 /\ args.membership[i] = LEFT
  /\ IsFin(ret)

\* the arguments with LEFT and RIGHT exchanged in every membership entry
Exchanged ==
  [args EXCEPT !.membership = [i \in 1..args.n |-> IF args.membership[i] = LEFT THEN RIGHT ELSE LEFT]]

====
